---- MODULE Spec2Model ----
(***************************************************************************)
(* Model of memory.py: an in-memory FUSE filesystem.  The node tree is a   *)
(* heap of node objects (Python object identity matters: rename moves the  *)
(* same object, and can put a directory below itself).  Paths and names    *)
(* are Python strings, modelled as sequences of one-character strings, so  *)
(* that str.split and str.rsplit are computed as Python does.  Timestamps  *)
(* are left out of the state.                                              *)
(***************************************************************************)
EXTENDS Integers, Sequences, FiniteSets, TLC

VARIABLES heap, fd, pc, reg, returned

vars == <<heap, fd, pc, reg, returned>>

\* The driver's worker threads: where each is in "self.fd += 1; return
\* self.fd", the value of self.fd it has loaded, and the ids returned so far.
threads == <<pc, reg, returned>>

\* ---------------------------------------------------------------- bounds
MaxNodes == 3
MaxFd == 2
MaxDrift == 1
NThreads == 2
MaxCalls == 3

\* ------------------------------------------------------------- constants
S_IFDIR == 16384
S_IFREG == 32768
S_IFLNK == 40960
RootMode == 493
SymlinkMode == 511
ChmodMask == 258048

\* ---------------------------------------------------------------- inputs
Threads == 1..NThreads

\* Absolute paths over the names a and b, two levels deep.  LeafPaths name
\* an entry of a directory; Paths adds the root.
LeafPaths ==
  { <<"/", "a">>,
    <<"/", "b">>,
    <<"/", "a", "/", "a">>,
    <<"/", "a", "/", "b">> }

Paths == LeafPaths \cup { <<"/">> }

Modes == {420}
ChmodModes == {384, S_IFDIR + 384}
Owners == {0, 1}
Datas == { <<"x", "y">> }
Offsets == {0}
Sizes == {0, 1}
XNames == {"k", "m"}
SetNames == {"k"}
XValues == {"v", "w"}

\* ------------------------------------------------------- integer helpers
RECURSIVE BitOr(_, _)
BitOr(a, b) ==
  IF a = 0 THEN b
  ELSE IF b = 0 THEN a
  ELSE (IF (a % 2 = 1) \/ (b % 2 = 1) THEN 1 ELSE 0) + 2 * BitOr(a \div 2, b \div 2)

RECURSIVE BitAnd(_, _)
BitAnd(a, b) ==
  IF a = 0 \/ b = 0 THEN 0
  ELSE (IF (a % 2 = 1) /\ (b % 2 = 1) THEN 1 ELSE 0) + 2 * BitAnd(a \div 2, b \div 2)

\* ---------------------------------------------------------- dict helpers
EmptyDict == [x \in {} |-> 0]

DictPut(d, k, v) == [x \in (DOMAIN d) \cup {k} |-> IF x = k THEN v ELSE d[x]]

DictDel(d, k) == [x \in (DOMAIN d) \ {k} |-> d[x]]

\* The keys of a dict in the order of their first insertion since they were
\* last absent: a history of the dict, which the Python 2 dict does not keep.
OrderPut(o, k) == IF \E i \in 1..Len(o) : o[i] = k THEN o ELSE Append(o, k)

OrderDel(o, k) == SelectSeq(o, LAMBDA x : x # k)

\* The orders in which iterating a dict with the keys S can give them: the
\* order of a Python 2 dict follows the hashes of its keys and is arbitrary.
Orders(S) ==
  { o \in [1..Cardinality(S) -> S] : \A i, j \in 1..Cardinality(S) : o[i] = o[j] => i = j }

\* ------------------------------------------------------------ node kinds
\* Fresh stands for a NoneNode() that find_node has just constructed and
\* that no entry mapping refers to; Root is fs_root.
Fresh == 0
Root == 1

FSNode(mode) ==
  [kind |-> "none", mode |-> mode, nlink |-> 0, uid |-> 0, gid |-> 0,
   entries |-> EmptyDict, inserted |-> <<>>, data |-> <<>>, xattrs |-> EmptyDict]

NoneNode == FSNode(0)

DirNode(mode) ==
  [FSNode(mode) EXCEPT !.kind = "dir", !.mode = BitOr(S_IFDIR, mode), !.nlink = 2]

FileNode(mode) ==
  [FSNode(mode) EXCEPT !.kind = "file", !.mode = BitOr(S_IFREG, mode), !.nlink = 1]

SymLinkNode(mode) ==
  [FileNode(mode) EXCEPT !.kind = "symlink", !.mode = BitOr(S_IFLNK, FileNode(mode).mode)]

\* Python frees an object that nothing refers to.  A heap slot whose object
\* was freed after unlink, rmdir or an overwrite took it out of the tree is
\* "free" and is used again, and so is the slot of a freed NoneNode; the slot
\* of a directory, file or symlink that left the tree in any other way is
\* "lost" and stays, as the record that the node existed.
FreeSlot == [FSNode(0) EXCEPT !.kind = "free"]

LostSlot == [FSNode(0) EXCEPT !.kind = "lost"]

FreeSlots(h) == { n \in 1..Len(h) : h[n].kind = "free" }

\* The slot a newly constructed object goes to.
NewSlot(h) ==
  IF FreeSlots(h) = {} THEN Len(h) + 1
  ELSE CHOOSE n \in FreeSlots(h) : \A m \in FreeSlots(h) : n <= m

New(h, obj) == IF NewSlot(h) = Len(h) + 1 THEN Append(h, obj) ELSE [h EXCEPT ![NewSlot(h)] = obj]

\* The object behind a node reference.
Obj(h, n) == IF n = Fresh THEN NoneNode ELSE h[n]

\* Only DirNode has the attribute `entries`; only FileNode and SymLinkNode
\* have the attribute `data`.  Reading a missing attribute is AttributeError.
HasEntries(h, n) == Obj(h, n).kind = "dir"

HasData(h, n) == Obj(h, n).kind \in {"file", "symlink"}

\* --------------------------------------------------------- str.split('/')
RECURSIVE split(_)
split(s) ==
  IF s = <<>> THEN << <<>> >>
  ELSE LET r == split(Tail(s)) IN
       IF Head(s) = "/" THEN << <<>> >> \o r
       ELSE << <<Head(s)>> \o Head(r) >> \o Tail(r)

\* ---------------------------------------------------- str.rsplit('/', 1)
SlashAt(s) == { i \in 1..Len(s) : s[i] = "/" }

LastSlash(s) == CHOOSE i \in SlashAt(s) : \A j \in SlashAt(s) : j <= i

split_parent_and_filename(path) ==
  IF SlashAt(path) = {} THEN << path >>
  ELSE << SubSeq(path, 1, LastSlash(path) - 1),
          SubSeq(path, LastSlash(path) + 1, Len(path)) >>

\* ------------------------------------------------------ DirNode.find_node
RECURSIVE walk(_, _, _)
walk(h, node, parts) ==
  IF parts = <<>> THEN [err |-> "ok", node |-> node]
  ELSE IF Head(parts) = <<>> THEN walk(h, node, Tail(parts))
  ELSE IF ~HasEntries(h, node) THEN [err |-> "AttributeError", node |-> Fresh]
  ELSE LET e == h[node].entries IN
       walk(h, IF Head(parts) \in DOMAIN e THEN e[Head(parts)] ELSE Fresh, Tail(parts))

find_node(h, path) == walk(h, Root, Tail(split(path)))

get_node(h, path) == find_node(h, path)

\* ------------------------------------------------------- handler results
\* A handler either returns (err = "ok", val = the returned value) or raises:
\* "ENOENT" and "ENODATA" are FuseOSError(errno); "AttributeError",
\* "KeyError" and "ValueError" are the Python exceptions of those names.
\* heap is the heap the call leaves behind, also when it raises.
Ret(h, v) == [heap |-> h, err |-> "ok", val |-> v]

Raise(h, e) == [heap |-> h, err |-> e, val |-> "none"]

\* Assignment to an attribute of node n; on a Fresh NoneNode the object is
\* dropped when the handler returns.
Store(h, n, obj) == IF n = Fresh THEN h ELSE [h EXCEPT ![n] = obj]

size(h, n) == IF Obj(h, n).kind = "dir" THEN 0 ELSE Len(Obj(h, n).data)

attrs(h, n) ==
  [st_mode |-> Obj(h, n).mode, st_nlink |-> Obj(h, n).nlink,
   st_uid |-> Obj(h, n).uid, st_gid |-> Obj(h, n).gid, st_size |-> size(h, n)]

\* -------------------------------------------------- Memory: the handlers
chmod(h, path, mode) ==
  LET r == get_node(h, path) IN
  IF r.err # "ok" THEN Raise(h, r.err)
  ELSE LET o == Obj(h, r.node) IN
       Ret(Store(h, r.node, [o EXCEPT !.mode = BitOr(BitAnd(o.mode, ChmodMask), mode)]), 0)

chown(h, path, uid, gid) ==
  LET r == get_node(h, path) IN
  IF r.err # "ok" THEN Raise(h, r.err)
  ELSE Ret(Store(h, r.node, [Obj(h, r.node) EXCEPT !.uid = uid, !.gid = gid]), "none")

\* The handlers that insert a node: node is the object to insert, bump is
\* the change of the parent's nlink that follows the insertion.
Insert(h, path, node, bump) ==
  LET pf == split_parent_and_filename(path) IN
  IF Len(pf) # 2 THEN Raise(h, "ValueError")
  ELSE LET r == get_node(h, pf[1]) IN
       IF r.err # "ok" THEN Raise(h, r.err)
       ELSE IF ~HasEntries(h, r.node) THEN Raise(h, "AttributeError")
       ELSE LET h1 == New(h, node)
                p == h1[r.node] IN
            Ret([h1 EXCEPT ![r.node] =
                    [p EXCEPT !.entries = DictPut(p.entries, pf[2], NewSlot(h)),
                              !.inserted = OrderPut(p.inserted, pf[2]),
                              !.nlink = p.nlink + bump]], "none")

\* f is self.fd before the call; the returned value is self.fd after it.
create(h, f, path, mode) ==
  LET r == Insert(h, path, FileNode(mode), 0) IN
  IF r.err # "ok" THEN r ELSE Ret(r.heap, f + 1)

getattr(h, path) ==
  LET r == get_node(h, path) IN
  IF r.err # "ok" THEN Raise(h, r.err)
  ELSE IF Obj(h, r.node).kind = "none" THEN Raise(h, "ENOENT")
  ELSE Ret(h, attrs(h, r.node))

getxattr(h, path, name) ==
  LET r == get_node(h, path) IN
  IF r.err # "ok" THEN Raise(h, r.err)
  ELSE IF name \in DOMAIN Obj(h, r.node).xattrs THEN Ret(h, Obj(h, r.node).xattrs[name])
  ELSE Raise(h, "ENODATA")

listxattr(h, path) ==
  LET r == get_node(h, path) IN
  IF r.err # "ok" THEN Raise(h, r.err)
  ELSE Ret(h, DOMAIN Obj(h, r.node).xattrs)

mkdir(h, path, mode) == Insert(h, path, DirNode(mode), 1)

\* open as it would be if it returned the counter without adding to it.
open_same_id(h, f, path) == Ret(h, f)

open(h, f, path) == Ret(h, f + 1)

\* read as it would be with the slice ending one byte early.
read_one_short(h, path, sz, offset) ==
  LET r == get_node(h, path) IN
  IF r.err # "ok" THEN Raise(h, r.err)
  ELSE IF ~HasData(h, r.node) THEN Raise(h, "AttributeError")
  ELSE LET d == Obj(h, r.node).data IN
       Ret(h, SubSeq(d, offset + 1, IF offset + sz - 1 < Len(d) THEN offset + sz - 1 ELSE Len(d)))

read(h, path, sz, offset) ==
  LET r == get_node(h, path) IN
  IF r.err # "ok" THEN Raise(h, r.err)
  ELSE IF ~HasData(h, r.node) THEN Raise(h, "AttributeError")
  ELSE LET d == Obj(h, r.node).data IN
       Ret(h, SubSeq(d, offset + 1, IF offset + sz < Len(d) THEN offset + sz ELSE Len(d)))

\* The orders in which [x for x in node.entries] can run at a path.
iterations(h, path) ==
  LET r == get_node(h, path) IN
  IF r.err = "ok" /\ HasEntries(h, r.node) THEN Orders(DOMAIN h[r.node].entries) ELSE { <<>> }

\* readdir as it would be if it listed the entries alone.
readdir_without_dots(h, path, iter) ==
  LET r == get_node(h, path) IN
  IF r.err # "ok" THEN Raise(h, r.err)
  ELSE IF ~HasEntries(h, r.node) THEN Raise(h, "AttributeError")
  ELSE Ret(h, iter)

\* iter is the order in which the iteration of node.entries gives the keys.
readdir(h, path, iter) ==
  LET r == get_node(h, path) IN
  IF r.err # "ok" THEN Raise(h, r.err)
  ELSE IF ~HasEntries(h, r.node) THEN Raise(h, "AttributeError")
  ELSE Ret(h, <<".", "..">> \o iter)

readlink(h, path) ==
  LET r == get_node(h, path) IN
  IF r.err # "ok" THEN Raise(h, r.err)
  ELSE IF ~HasData(h, r.node) THEN Raise(h, "AttributeError")
  ELSE Ret(h, Obj(h, r.node).data)

\* self.files: the one key '/' set in __init__, a dict without 'attrs'.
files == [p \in {<<"/">>} |-> [st_mode |-> BitOr(S_IFDIR, RootMode), st_nlink |-> 2]]

removexattr(h, path, name) ==
  IF path \notin DOMAIN files THEN Raise(h, "KeyError")
  ELSE LET a == IF "attrs" \in DOMAIN files[path] THEN files[path].attrs ELSE EmptyDict IN
       \* del attrs[name]: a KeyError is swallowed; no node's xattrs is touched
       Ret(h, "none")

\* del parent_node.entries[filename], then parent_node.nlink += bump
Delete(h, path, bump) ==
  LET pf == split_parent_and_filename(path) IN
  IF Len(pf) # 2 THEN Raise(h, "ValueError")
  ELSE LET r == get_node(h, pf[1]) IN
       IF r.err # "ok" THEN Raise(h, r.err)
       ELSE IF ~HasEntries(h, r.node) THEN Raise(h, "AttributeError")
       ELSE IF pf[2] \notin DOMAIN h[r.node].entries THEN Raise(h, "KeyError")
       ELSE LET p == h[r.node] IN
            Ret([h EXCEPT ![r.node] =
                    [p EXCEPT !.entries = DictDel(p.entries, pf[2]),
                              !.inserted = OrderDel(p.inserted, pf[2]),
                              !.nlink = p.nlink + bump]], "none")

rename(h, old_path, new_path) ==
  LET m == get_node(h, old_path) IN
  IF m.err # "ok" THEN Raise(h, m.err)
  ELSE LET pf == split_parent_and_filename(new_path) IN
       IF Len(pf) # 2 THEN Raise(h, "ValueError")
       ELSE LET r == get_node(h, pf[1]) IN
            IF r.err # "ok" THEN Raise(h, r.err)
            ELSE IF ~HasEntries(h, r.node) THEN Raise(h, "AttributeError")
            ELSE LET \* a NoneNode that get_node made is kept alive by the entry
                     h1 == IF m.node = Fresh THEN New(h, NoneNode) ELSE h
                     moving_node == IF m.node = Fresh THEN NewSlot(h) ELSE m.node
                     p == h1[r.node]
                     h2 == [h1 EXCEPT ![r.node] =
                              [p EXCEPT !.entries = DictPut(p.entries, pf[2], moving_node),
                                        !.inserted = OrderPut(p.inserted, pf[2])]]
                 IN  \* remove old dir entry
                     Delete(h2, old_path, 0)

\* rmdir as it would be without its last line, the decrement of nlink.
rmdir_keeps_nlink(h, path) == Delete(h, path, 0)

rmdir(h, path) == Delete(h, path, -1)

\* setxattr as it would be if it kept the attributes where removexattr looks
\* for them, on the root, whatever the path.
setxattr_on_root(h, path, name, value) ==
  LET r == get_node(h, path) IN
  IF r.err # "ok" THEN Raise(h, r.err)
  ELSE Ret(Store(h, Root, [h[Root] EXCEPT !.xattrs = DictPut(h[Root].xattrs, name, value)]), "none")

setxattr(h, path, name, value) ==
  LET r == get_node(h, path) IN
  IF r.err # "ok" THEN Raise(h, r.err)
  ELSE LET o == Obj(h, r.node) IN
       Ret(Store(h, r.node, [o EXCEPT !.xattrs = DictPut(o.xattrs, name, value)]), "none")

statfs(h, path) == Ret(h, [f_bsize |-> 512, f_blocks |-> 4096, f_bavail |-> 2048])

symlink(h, target, source) ==
  Insert(h, target, [SymLinkNode(SymlinkMode) EXCEPT !.data = source], 0)

\* truncate as ftruncate(2) does it: a length beyond the end pads with zeros.
truncate_pads(h, path, length) ==
  LET r == get_node(h, path) IN
  IF r.err # "ok" THEN Raise(h, r.err)
  ELSE IF ~HasData(h, r.node) THEN Raise(h, "AttributeError")
  ELSE LET o == Obj(h, r.node) IN
       Ret(Store(h, r.node,
                 [o EXCEPT !.data = [i \in 1..length |-> IF i <= Len(o.data) THEN o.data[i] ELSE "0"]]),
           "none")

truncate(h, path, length) ==
  LET r == get_node(h, path) IN
  IF r.err # "ok" THEN Raise(h, r.err)
  ELSE IF ~HasData(h, r.node) THEN Raise(h, "AttributeError")
  ELSE LET o == Obj(h, r.node) IN
       Ret(Store(h, r.node,
                 [o EXCEPT !.data = SubSeq(o.data, 1, IF length < Len(o.data) THEN length ELSE Len(o.data))]),
           "none")

unlink(h, path) == Delete(h, path, 0)

\* Timestamps are not part of the model state: utimens resolves the node
\* and stores two times on it.
utimens(h, path) ==
  LET r == get_node(h, path) IN
  IF r.err # "ok" THEN Raise(h, r.err) ELSE Ret(h, "none")

write(h, path, data, offset) ==
  LET r == get_node(h, path) IN
  IF r.err # "ok" THEN Raise(h, r.err)
  ELSE IF ~HasData(h, r.node) THEN Raise(h, "AttributeError")
  ELSE LET o == Obj(h, r.node) IN
       Ret(Store(h, r.node,
                 [o EXCEPT !.data = SubSeq(o.data, 1, IF offset < Len(o.data) THEN offset ELSE Len(o.data)) \o data]),
           Len(data))

\* --------------------------------------------------- shape of the tree
Nodes(h) == 1..Len(h)

Children(h, n) == IF n \in Nodes(h) THEN { h[n].entries[k] : k \in DOMAIN h[n].entries } ELSE {}

RECURSIVE Closure(_, _, _)
Closure(h, S, k) ==
  IF k = 0 THEN S
  ELSE Closure(h, S \cup UNION { Children(h, n) : n \in S }, k - 1)

\* n and everything below it
Subtree(h, n) == Closure(h, {n}, Len(h))

Reachable(h) == Subtree(h, Root)

\* The node that the entry (parent of path, leaf of path) holds, Fresh if none.
EntryOf(h, path) ==
  LET pf == split_parent_and_filename(path) IN
  IF Len(pf) # 2 THEN Fresh
  ELSE LET r == get_node(h, pf[1]) IN
       IF r.err = "ok" /\ HasEntries(h, r.node) /\ pf[2] \in DOMAIN h[r.node].entries
       THEN h[r.node].entries[pf[2]]
       ELSE Fresh

\* The nodes that unlink, rmdir or an overwrite at path takes out of the
\* tree, with what is below them.
Dropped(h, path, r) ==
  IF EntryOf(h, path) # Fresh /\ EntryOf(r.heap, path) # EntryOf(h, path)
  THEN Subtree(h, EntryOf(h, path))
  ELSE {}

Sweep(h, gone) ==
  [n \in 1..Len(h) |->
     IF n \in Reachable(h) \/ h[n].kind = "lost" THEN h[n]
     ELSE IF n \in gone \/ h[n].kind \in {"free", "none"} THEN FreeSlot
     ELSE LostSlot]

\* ------------------------------------------------------------------ Init
Init ==
  /\ heap = << DirNode(RootMode) >>
  /\ fd = 0
  /\ pc = [t \in Threads |-> "idle"]
  /\ reg = [t \in Threads |-> 0]
  /\ returned = <<>>

\* --------------------------------------------------------------- actions
\* A call that raises is a step too: it keeps whatever the handler had
\* already changed.  What a call returns or raises is not stored; it is
\* the err and val of the handler's result in the state of the call.
Kept(r, gone) ==
  /\ Len(r.heap) <= MaxNodes
  /\ \A n \in 1..Len(r.heap) :
       r.heap[n].kind = "dir" =>
         /\ r.heap[n].nlink <= 2 + MaxDrift
         /\ r.heap[n].nlink >= 2 - MaxDrift
  /\ heap' = IF r.heap = heap THEN heap ELSE Sweep(r.heap, gone)

\* A handler run from its call to its return with no other thread between.
Done(r, gone) ==
  /\ Kept(r, gone)
  /\ UNCHANGED threads

Create ==
  \E path \in LeafPaths, mode \in Modes :
    LET r == create(heap, fd, path, mode) IN
    /\ fd < MaxFd
    /\ Done(r, Dropped(heap, path, r))
    /\ fd' = IF r.err = "ok" THEN r.val ELSE fd

Mkdir ==
  \E path \in LeafPaths, mode \in Modes :
    LET r == mkdir(heap, path, mode) IN
    /\ Done(r, Dropped(heap, path, r))
    /\ UNCHANGED fd

Symlink ==
  \E target \in LeafPaths, source \in Datas :
    LET r == symlink(heap, target, source) IN
    /\ Done(r, Dropped(heap, target, r))
    /\ UNCHANGED fd

Unlink ==
  \E path \in LeafPaths :
    LET r == unlink(heap, path) IN
    /\ Done(r, Dropped(heap, path, r))
    /\ UNCHANGED fd

Rmdir ==
  \E path \in LeafPaths :
    LET r == rmdir(heap, path) IN
    /\ Done(r, Dropped(heap, path, r))
    /\ UNCHANGED fd

Rename ==
  \E old_path \in LeafPaths, new_path \in LeafPaths :
    LET r == rename(heap, old_path, new_path) IN
    /\ Done(r, IF old_path = new_path THEN {} ELSE Dropped(heap, new_path, r))
    /\ UNCHANGED fd

Write ==
  \E path \in Paths, data \in Datas, offset \in Offsets :
    /\ Done(write(heap, path, data, offset), {})
    /\ UNCHANGED fd

Truncate ==
  \E path \in Paths, length \in Sizes :
    /\ Done(truncate(heap, path, length), {})
    /\ UNCHANGED fd

Open ==
  \E path \in Paths :
    LET r == open(heap, fd, path) IN
    /\ fd < MaxFd
    /\ Done(r, {})
    /\ fd' = r.val

Getattr ==
  \E path \in Paths :
    /\ Done(getattr(heap, path), {})
    /\ UNCHANGED fd

Read ==
  \E path \in Paths, sz \in Sizes, offset \in Offsets :
    /\ Done(read(heap, path, sz, offset), {})
    /\ UNCHANGED fd

Readdir ==
  \E path \in Paths : \E iter \in iterations(heap, path) :
    /\ Done(readdir(heap, path, iter), {})
    /\ UNCHANGED fd

Readlink ==
  \E path \in Paths :
    /\ Done(readlink(heap, path), {})
    /\ UNCHANGED fd

Statfs ==
  \E path \in Paths :
    /\ Done(statfs(heap, path), {})
    /\ UNCHANGED fd

Setxattr ==
  \E path \in Paths, name \in SetNames, value \in XValues :
    /\ Done(setxattr(heap, path, name, value), {})
    /\ UNCHANGED fd

Getxattr ==
  \E path \in Paths, name \in XNames :
    /\ Done(getxattr(heap, path, name), {})
    /\ UNCHANGED fd

Listxattr ==
  \E path \in Paths :
    /\ Done(listxattr(heap, path), {})
    /\ UNCHANGED fd

Removexattr ==
  \E path \in Paths, name \in XNames :
    /\ Done(removexattr(heap, path, name), {})
    /\ UNCHANGED fd

Chmod ==
  \E path \in Paths, mode \in ChmodModes :
    /\ Done(chmod(heap, path, mode), {})
    /\ UNCHANGED fd

Chown ==
  \E path \in Paths, uid \in Owners, gid \in Owners :
    /\ Done(chown(heap, path, uid, gid), {})
    /\ UNCHANGED fd

Utimens ==
  \E path \in Paths :
    /\ Done(utimens(heap, path), {})
    /\ UNCHANGED fd

\* The tree and its contents: every handler that changes entries or data,
\* and the handlers that only read.
Next ==
  \/ Create
  \/ Mkdir
  \/ Symlink
  \/ Unlink
  \/ Rmdir
  \/ Rename
  \/ Write
  \/ Truncate
  \/ Open
  \/ Getattr
  \/ Read
  \/ Readdir
  \/ Readlink
  \/ Statfs

Spec == Init /\ [][Next]_vars

\* Extended attributes, on the nodes of a tree that only grows.
NextX ==
  \/ Symlink
  \/ Mkdir
  \/ Setxattr
  \/ Getxattr
  \/ Listxattr
  \/ Removexattr

SpecX == Init /\ [][NextX]_vars

\* Mode and ownership, on the nodes of a tree that only grows.
NextMeta ==
  \/ Create
  \/ Mkdir
  \/ Chmod
  \/ Chown
  \/ Utimens

SpecMeta == Init /\ [][NextMeta]_vars

\* ================================================================ claims
\* What the claims speak of.
IsDir(h, n) == n # Fresh /\ h[n].kind = "dir"

IsNode(h, n) == n # Fresh /\ h[n].kind \in {"dir", "file", "symlink"}

\* The node a path names: every segment but the last names a directory and
\* every segment is an entry of the directory before it.  Fresh if none.
RECURSIVE Named(_, _, _)
Named(h, node, parts) ==
  IF parts = <<>> THEN (IF IsNode(h, node) THEN node ELSE Fresh)
  ELSE IF Head(parts) = <<>> THEN Named(h, node, Tail(parts))
  ELSE IF ~IsDir(h, node) \/ Head(parts) \notin DOMAIN h[node].entries THEN Fresh
  ELSE Named(h, h[node].entries[Head(parts)], Tail(parts))

Lookup(h, path) == Named(h, Root, Tail(split(path)))

Parent(path) == split_parent_and_filename(path)[1]

Leaf(path) == split_parent_and_filename(path)[2]

SubDirs(h, n) == { k \in DOMAIN h[n].entries : IsDir(h, h[n].entries[k]) }

\* C1: every directory's nlink is 2 plus the number of its entries that are
\* directories.
C1_NlinkCountsSubdirectories ==
  \A n \in Nodes(heap) :
    IsDir(heap, n) => heap[n].nlink = 2 + Cardinality(SubDirs(heap, n))

\* C2: getattr of a path that names no node of the tree fails with ENOENT,
\* whichever segment is the one that is missing or is not a directory.
C2_GetattrOfMissingPathIsENOENT ==
  \A p \in Paths :
    Lookup(heap, p) = Fresh => getattr(heap, p).err = "ENOENT"

\* C3: renaming a file with content C to a path whose parent is a directory
\* leaves the new path naming a node with content C, and the old path, when
\* it is another path, failing getattr with ENOENT.
C3_RenameKeepsContent ==
  \A old \in LeafPaths, new \in LeafPaths :
    (/\ Lookup(heap, old) # Fresh
     /\ heap[Lookup(heap, old)].kind = "file"
     /\ IsDir(heap, Lookup(heap, Parent(new))))
    => LET r == rename(heap, old, new) IN
       /\ Lookup(r.heap, new) # Fresh
       /\ r.heap[Lookup(r.heap, new)].data = heap[Lookup(heap, old)].data
       /\ (old # new => getattr(r.heap, old).err = "ENOENT")

\* C4: the nodes form a strict rooted tree: no directory below itself, no
\* node under two entries, and every node that unlink, rmdir or an overwrite
\* did not remove is reachable from the root.
C4_StrictRootedTree ==
  /\ \A n \in Nodes(heap) : n \notin Closure(heap, Children(heap, n), Len(heap))
  /\ \A n1 \in Nodes(heap), n2 \in Nodes(heap) :
       \A k1 \in DOMAIN heap[n1].entries, k2 \in DOMAIN heap[n2].entries :
         heap[n1].entries[k1] = heap[n2].entries[k2] => (n1 = n2 /\ k1 = k2)
  /\ \A n \in Nodes(heap) : heap[n].kind # "free" => n \in Reachable(heap)

\* C5: unlink, rmdir and rename of a path whose parent is a directory that
\* has no entry of the leaf name fail with ENOENT.
C5_RemovingAbsentEntryIsENOENT ==
  \A p \in LeafPaths :
    (/\ IsDir(heap, Lookup(heap, Parent(p)))
     /\ Leaf(p) \notin DOMAIN heap[Lookup(heap, Parent(p))].entries)
    => /\ unlink(heap, p).err = "ENOENT"
       /\ rmdir(heap, p).err = "ENOENT"
       /\ \A q \in LeafPaths : rename(heap, p, q).err = "ENOENT"

\* C6: no entry of any directory holds a NoneNode: every listed name is a
\* directory, a file or a symlink, and getattr of it succeeds.
C6_NoNoneNodeInEntries ==
  \A n \in Nodes(heap) :
    \A k \in DOMAIN heap[n].entries : IsNode(heap, heap[n].entries[k])

\* C7: removexattr of a name that an existing node does not have returns
\* without an error and changes nothing.
C7_RemovexattrOfAbsentNameIsSilent ==
  \A p \in Paths, k \in XNames :
    (Lookup(heap, p) # Fresh /\ k \notin DOMAIN heap[Lookup(heap, p)].xattrs)
    => removexattr(heap, p, k) = Ret(heap, "none")

\* C8: after setxattr(p, k, v) and removexattr(p, k) on an existing node,
\* getxattr(p, k) fails with ENODATA and listxattr(p) does not list k.
C8_RemovexattrRemovesWhatSetxattrSet ==
  \A p \in Paths, k \in XNames, v \in XValues :
    Lookup(heap, p) # Fresh
    => LET h1 == setxattr(heap, p, k, v).heap
           h2 == removexattr(h1, p, k).heap
       IN /\ getxattr(h2, p, k).err = "ENODATA"
          /\ k \notin listxattr(h2, p).val

\* C9: on an existing node, getxattr after setxattr returns the value set,
\* setxattr changes that one name of that one node and nothing else, a name
\* the node does not have fails with ENODATA, and no step but a setxattr of
\* the node changes its attributes.
C9_SetThenGet ==
  \A p \in Paths :
    Lookup(heap, p) # Fresh
    => /\ \A k \in XNames, v \in XValues :
            LET r == setxattr(heap, p, k, v)
                n == Lookup(heap, p)
            IN /\ r.err = "ok"
               /\ getxattr(r.heap, p, k) = Ret(r.heap, v)
               /\ Len(r.heap) = Len(heap)
               /\ \A o \in Nodes(heap) \ {n} : r.heap[o] = heap[o]
               /\ [r.heap[n] EXCEPT !.xattrs = heap[n].xattrs] = heap[n]
               /\ \A m \in (DOMAIN heap[n].xattrs) \ {k} :
                    getxattr(r.heap, p, m) = Ret(r.heap, heap[n].xattrs[m])
       /\ \A m \in XNames :
            m \notin DOMAIN heap[Lookup(heap, p)].xattrs
            => getxattr(heap, p, m).err = "ENODATA"

\* C9, the step part: a node's attributes change only in a setxattr of it.
C9_OnlySetxattrChanges ==
  \A n \in Nodes(heap) :
    (/\ IsNode(heap, n)
     /\ n \in Nodes(heap')
     /\ IsNode(heap', n)
     /\ heap'[n].xattrs # heap[n].xattrs)
    => \E p \in Paths, k \in XNames, v \in XValues :
         /\ Lookup(heap, p) = n
         /\ heap' = setxattr(heap, p, k, v).heap

\* C9: setxattr then getxattr returns the value, on that node only, until
\* the name is set again; an absent name fails with ENODATA.
C9_Xattrs == []C9_SetThenGet /\ [][C9_OnlySetxattrChanges]_vars

\* C9 happens: setxattr has stored "w" on a symlink and "v" on the root.
C9_Witness ==
  \E n \in Nodes(heap) :
    /\ heap[n].kind = "symlink"
    /\ "k" \in DOMAIN heap[n].xattrs
    /\ heap[n].xattrs["k"] = "w"
    /\ "k" \in DOMAIN heap[Root].xattrs
    /\ heap[Root].xattrs["k"] = "v"

\* How the calls of the handlers end in a state, over the bounded inputs.
Outcomes(h, f) ==
  UNION {
    { chmod(h, p, m).err : p \in Paths, m \in ChmodModes },
    { chown(h, p, u, u).err : p \in Paths, u \in Owners },
    { create(h, f, p, m).err : p \in LeafPaths, m \in Modes },
    { getattr(h, p).err : p \in Paths },
    { getxattr(h, p, k).err : p \in Paths, k \in XNames },
    { listxattr(h, p).err : p \in Paths },
    { mkdir(h, p, m).err : p \in LeafPaths, m \in Modes },
    { open(h, f, p).err : p \in Paths },
    { read(h, p, z, o).err : p \in Paths, z \in Sizes, o \in Offsets },
    UNION { { readdir(h, p, iter).err : iter \in iterations(h, p) } : p \in Paths },
    { readlink(h, p).err : p \in Paths },
    { removexattr(h, p, k).err : p \in Paths, k \in XNames },
    { rename(h, p, q).err : p \in LeafPaths, q \in LeafPaths },
    { rmdir(h, p).err : p \in LeafPaths },
    { setxattr(h, p, k, v).err : p \in Paths, k \in XNames, v \in XValues },
    { statfs(h, p).err : p \in Paths },
    { symlink(h, p, d).err : p \in LeafPaths, d \in Datas },
    { truncate(h, p, z).err : p \in Paths, z \in Sizes },
    { unlink(h, p).err : p \in LeafPaths },
    { utimens(h, p).err : p \in Paths },
    { write(h, p, d, o).err : p \in Paths, d \in Datas, o \in Offsets } }

\* C10: every handler, in every state and for every path, returns or fails
\* with ENOENT or ENODATA, never with another exception.
C10_OnlyTypedFailures == Outcomes(heap, fd) \subseteq {"ok", "ENOENT", "ENODATA"}

\* Directories made and removed, with files and symlinks among them.
NextDir ==
  \/ Mkdir
  \/ Rmdir
  \/ Create
  \/ Symlink

SpecDir == Init /\ [][NextDir]_vars

\* The path of the entry called name of the directory at path.
Inside(path, name) == path \o <<"/">> \o name

\* What is created inside a directory between its mkdir and its rmdir.
Fillings == {"nothing", "file", "dir", "dir and file", "dir in dir"}

Filled(h, path, how) ==
  LET f == create(h, 0, Inside(path, <<"a">>), 420).heap
      d == mkdir(h, Inside(path, <<"a">>), 420).heap
  IN CASE how = "nothing" -> h
       [] how = "file" -> f
       [] how = "dir" -> d
       [] how = "dir and file" -> create(d, 0, Inside(path, <<"b">>), 420).heap
       [] how = "dir in dir" -> mkdir(d, Inside(Inside(path, <<"a">>), <<"b">>), 420).heap

\* C11: mkdir of a name in an existing directory P adds exactly 1 to P's
\* nlink and leaves every other directory's nlink alone; the rmdir of that
\* name that follows takes exactly 1 off again, whatever was created inside
\* the new directory in between.
C11_MkdirRmdirNlink ==
  \A p \in LeafPaths, mode \in Modes :
    IsDir(heap, Lookup(heap, Parent(p)))
    => LET P == Lookup(heap, Parent(p))
           r == mkdir(heap, p, mode)
       IN /\ r.err = "ok"
          /\ r.heap[P].nlink = heap[P].nlink + 1
          /\ \A n \in Nodes(heap) \ {P} : IsDir(heap, n) => r.heap[n].nlink = heap[n].nlink
          /\ \A how \in Fillings :
               LET h2 == Filled(r.heap, p, how)
                   r3 == rmdir(h2, p)
               IN /\ h2[P].nlink = heap[P].nlink + 1
                  /\ r3.err = "ok"
                  /\ r3.heap[P].nlink = heap[P].nlink
                  /\ \A n \in Nodes(heap) \ {P} :
                       IsDir(heap, n) => r3.heap[n].nlink = heap[n].nlink

\* C11 happens: a directory made in the root has entries of its own, and
\* the root's nlink counts it.
C11_Witness ==
  \E k \in DOMAIN heap[Root].entries :
    /\ IsDir(heap, heap[Root].entries[k])
    /\ DOMAIN heap[heap[Root].entries[k]].entries # {}
    /\ heap[Root].nlink = 3

\* Files and what is in them.
NextData ==
  \/ Create
  \/ Mkdir
  \/ Unlink
  \/ Write
  \/ Truncate
  \/ Read
  \/ Getattr

SpecData == Init /\ [][NextData]_vars

\* The byte strings and lengths the claims about contents range over.
ByteStrings == { <<>>, <<"x">>, <<"y", "x">>, <<"x", "y", "x">> }

Lengths == 0..4

Min(a, b) == IF a < b THEN a ELSE b

\* C12: create, then write data at offset 0, then read len(data) bytes at
\* offset 0 gives data back; write returns len(data), getattr reports that
\* size, and the parent's nlink is what it was.
C12_WriteThenRead ==
  \A p \in LeafPaths, mode \in Modes, d \in ByteStrings :
    IsDir(heap, Lookup(heap, Parent(p)))
    => LET P == Lookup(heap, Parent(p))
           r1 == create(heap, fd, p, mode)
           r2 == write(r1.heap, p, d, 0)
           r3 == read(r2.heap, p, Len(d), 0)
       IN /\ r1.err = "ok"
          /\ r2.err = "ok"
          /\ r2.val = Len(d)
          /\ r3 = Ret(r2.heap, d)
          /\ getattr(r2.heap, p).err = "ok"
          /\ getattr(r2.heap, p).val.st_size = Len(d)
          /\ r1.heap[P].nlink = heap[P].nlink
          /\ r2.heap[P].nlink = heap[P].nlink

\* C12 happens: a created file holds what was written to it.
C12_Witness ==
  \E p \in LeafPaths :
    /\ Lookup(heap, p) # Fresh
    /\ heap[Lookup(heap, p)].kind = "file"
    /\ heap[Lookup(heap, p)].data = <<"x", "y">>
    /\ read(heap, p, 2, 0).val = <<"x", "y">>

\* The content of the file at path p after truncate(p, L), c being the
\* content before.
TruncatesTo(h, p, c, L) ==
  LET r == truncate(h, p, L) IN
  /\ r.err = "ok"
  /\ r.heap[Lookup(h, p)].data = SubSeq(c, 1, Min(Len(c), L))
  /\ Len(r.heap[Lookup(h, p)].data) <= Len(c)

\* C13: truncate(p, L) leaves the first min(n, L) bytes of the content, for
\* the content the file has and for every content written to it first.
C13_TruncateNeverExtends ==
  \A p \in Paths, L \in Lengths :
    (Lookup(heap, p) # Fresh /\ heap[Lookup(heap, p)].kind = "file")
    => /\ TruncatesTo(heap, p, heap[Lookup(heap, p)].data, L)
       /\ \A d \in ByteStrings : TruncatesTo(write(heap, p, d, 0).heap, p, d, L)

\* C13 happens: only truncate(p, 1) of the content "xy" leaves "x".
C13_Witness ==
  \E n \in Nodes(heap) : heap[n].kind = "file" /\ heap[n].data = <<"x">>

\* Handles: the two handlers that count, among handlers that do not.
NextFd ==
  \/ Create
  \/ Open
  \/ Mkdir
  \/ Unlink
  \/ Write
  \/ Getattr

SpecFd == Init /\ [][NextFd]_vars

\* C14, in a state: open returns the counter plus one for any path and
\* leaves the tree alone; a create that returns, returns the counter plus one.
C14_NextId ==
  /\ \A p \in Paths : open(heap, fd, p) = Ret(heap, fd + 1)
  /\ \A p \in LeafPaths, mode \in Modes :
       create(heap, fd, p, mode).err = "ok" => create(heap, fd, p, mode).val = fd + 1

\* C14, in a step: the counter changes only in an open or a create, to the
\* id that call returns, which is the id before plus one.
C14_CounterStep ==
  fd' # fd
  => /\ fd' = fd + 1
     /\ \/ \E p \in Paths : heap' = heap /\ open(heap, fd, p).val = fd'
        \/ \E p \in LeafPaths, mode \in Modes :
             LET r == create(heap, fd, p, mode) IN
             /\ r.err = "ok"
             /\ r.val = fd'
             /\ heap' = Sweep(r.heap, Dropped(heap, p, r))

\* C14: the ids returned by create and open are 1, 2, 3, ... in the order
\* of the calls, and nothing else moves the counter.
C14_HandleIds == (fd = 0) /\ []C14_NextId /\ [][C14_CounterStep]_vars

\* C14 happens: two ids have been handed out, one of them by a create.
C14_Witness ==
  /\ fd = 2
  /\ Cardinality({ n \in Nodes(heap) : heap[n].kind = "file" }) = 1

\* C15: readlink returns the stored text exactly for the paths that name a
\* symlink, whose size is the length of that text; for a path that names a
\* regular file or a directory, or no node, it fails with ENOENT.
C15_ReadlinkOnlyOfSymlinks ==
  \A p \in Paths :
    LET n == Lookup(heap, p)
        r == readlink(heap, p) IN
    IF n # Fresh /\ heap[n].kind = "symlink"
    THEN /\ r = Ret(heap, heap[n].data)
         /\ getattr(heap, p).val.st_size = Len(heap[n].data)
    ELSE r.err = "ENOENT"

\* Listings: names put into directories and taken out of them again.  The
\* removal is by unlink and rename; rmdir removes as unlink does and differs
\* in the parent's nlink alone.
NextList ==
  \/ Mkdir
  \/ Symlink
  \/ Unlink
  \/ Rename
  \/ Readdir

SpecList == Init /\ [][NextList]_vars

\* The elements of a sequence.
Elements(s) == { s[i] : i \in 1..Len(s) }

\* C16 as stated: readdir of a directory returns ".", ".." and then the
\* names of its entries in the order in which they were inserted.
C16_ReaddirInInsertionOrder ==
  \A p \in Paths : \A iter \in iterations(heap, p) :
    IsDir(heap, Lookup(heap, p))
    => readdir(heap, p, iter) = Ret(heap, <<".", "..">> \o heap[Lookup(heap, p)].inserted)

\* C16, amended: readdir of a directory returns ".", ".." and then exactly
\* the names now in its entry mapping, each once, in the order the dict
\* gives them, which need not be the order of insertion nor sorted; a name
\* that was removed is no key and is not listed.
C16_ReaddirListsEntries ==
  \A p \in Paths : \A iter \in iterations(heap, p) :
    IsDir(heap, Lookup(heap, p))
    => LET r == readdir(heap, p, iter)
           names == SubSeq(r.val, 3, Len(r.val))
           d == heap[Lookup(heap, p)] IN
       /\ r.err = "ok"
       /\ r.heap = heap
       /\ Len(r.val) = 2 + Cardinality(DOMAIN d.entries)
       /\ r.val[1] = "."
       /\ r.val[2] = ".."
       /\ Elements(names) = DOMAIN d.entries
       /\ Elements(d.inserted) = DOMAIN d.entries

\* C16 happens: the root has two entries, "b" inserted before "a", and "a"
\* is an object made after an earlier object left the tree, in whose slot it is.
C16_Witness ==
  /\ heap[Root].inserted = << <<"b">>, <<"a">> >>
  /\ heap[Root].entries[<<"a">>] < heap[Root].entries[<<"b">>]
  /\ \A k \in DOMAIN heap[Root].entries : IsNode(heap, heap[Root].entries[k])

\* mode AND 0170000: the bits of the mask 0770000 that are below 0200000.
TypeBits(mode) == BitAnd(mode, ChmodMask) % (2 * S_IFREG)

\* The mode a node of a kind is constructed with, for the mode 0.
Constructed(kind) ==
  IF kind = "dir" THEN DirNode(0).mode
  ELSE IF kind = "file" THEN FileNode(0).mode
  ELSE SymLinkNode(0).mode

\* C17: the file-type bits of every node's mode are the ones it was
\* constructed with, whatever modes chmod was called with since.
C17_TypeBitsNeverChange ==
  \A n \in Nodes(heap) :
    IsNode(heap, n) => TypeBits(heap[n].mode) = TypeBits(Constructed(heap[n].kind))

\* Path strings with a separator at the end or a doubled one, with plain ones.
PathStrings ==
  { <<"/">>,
    <<"/", "a">>,
    <<"/", "a", "/">>,
    <<"/", "/", "a">>,
    <<"/", "a", "/", "/", "b">> }

\* Every key of every entry mapping is a name: not empty and without '/'.
NamesAreSegments(h) ==
  \A n \in Nodes(h) :
    \A k \in DOMAIN h[n].entries : k # <<>> /\ "/" \notin Elements(k)

\* Every entry of every directory of the tree is what its path resolves to.
EntriesResolve(h) ==
  \A p \in Paths :
    IsDir(h, Lookup(h, p))
    => \A k \in DOMAIN h[Lookup(h, p)].entries :
         get_node(h, Inside(p, k)) = [err |-> "ok", node |-> h[Lookup(h, p)].entries[k]]

\* C18: the keys of the entry mappings are names and the entries resolve, in
\* the state and in the state that create, mkdir, symlink or rename leaves
\* when called with any path string.
C18_EntryKeysAreNames ==
  /\ NamesAreSegments(heap)
  /\ EntriesResolve(heap)
  /\ \A p \in PathStrings :
       /\ \A mode \in Modes :
            /\ NamesAreSegments(create(heap, fd, p, mode).heap)
            /\ EntriesResolve(create(heap, fd, p, mode).heap)
            /\ NamesAreSegments(mkdir(heap, p, mode).heap)
            /\ EntriesResolve(mkdir(heap, p, mode).heap)
       /\ \A source \in Datas :
            /\ NamesAreSegments(symlink(heap, p, source).heap)
            /\ EntriesResolve(symlink(heap, p, source).heap)
       /\ \A old \in LeafPaths :
            rename(heap, old, p).err = "ok"
            => /\ NamesAreSegments(rename(heap, old, p).heap)
               /\ EntriesResolve(rename(heap, old, p).heap)

\* How a call ended and the heap it left.
Effect(r) == [err |-> r.err, heap |-> r.heap]

\* The effects of the calls of the handlers in a state, over the bounded inputs.
Effects(h, f) ==
  UNION {
    { Effect(chmod(h, p, m)) : p \in Paths, m \in ChmodModes },
    { Effect(chown(h, p, u, u)) : p \in Paths, u \in Owners },
    { Effect(create(h, f, p, m)) : p \in LeafPaths, m \in Modes },
    { Effect(getattr(h, p)) : p \in Paths },
    { Effect(getxattr(h, p, k)) : p \in Paths, k \in XNames },
    { Effect(listxattr(h, p)) : p \in Paths },
    { Effect(mkdir(h, p, m)) : p \in LeafPaths, m \in Modes },
    { Effect(open(h, f, p)) : p \in Paths },
    { Effect(read(h, p, z, o)) : p \in Paths, z \in Sizes, o \in Offsets },
    { Effect(readdir(h, p, <<>>)) : p \in Paths },
    { Effect(readlink(h, p)) : p \in Paths },
    { Effect(removexattr(h, p, k)) : p \in Paths, k \in XNames },
    { Effect(rename(h, p, q)) : p \in LeafPaths, q \in LeafPaths },
    { Effect(rmdir(h, p)) : p \in LeafPaths },
    { Effect(setxattr(h, p, k, v)) : p \in Paths, k \in XNames, v \in XValues },
    { Effect(statfs(h, p)) : p \in Paths },
    { Effect(symlink(h, p, d)) : p \in LeafPaths, d \in Datas },
    { Effect(truncate(h, p, z)) : p \in Paths, z \in Sizes },
    { Effect(unlink(h, p)) : p \in LeafPaths },
    { Effect(utimens(h, p)) : p \in Paths },
    { Effect(write(h, p, d, o)) : p \in Paths, d \in Datas, o \in Offsets } }

\* C19: a call that fails leaves the heap as it was; a rename of a path that
\* names nothing adds no entry, and an rmdir of a name that is no entry
\* leaves the parent's nlink.
C19_FailureChangesNothing ==
  \A e \in Effects(heap, fd) : e.err # "ok" => e.heap = heap

\* ------------------------------------------- create and open on threads
\* The mount runs the handlers on the driver's worker threads and Memory
\* takes no lock: a thread can be switched out between the load of self.fd,
\* the store of the sum and the load for the return value.
Running == { t \in Threads : pc[t] # "idle" }

\* create up to the counter: the entry is stored, or the call raises.
CreateEnters(t) ==
  \E path \in LeafPaths, mode \in Modes :
    LET r == Insert(heap, path, FileNode(mode), 0) IN
    /\ pc[t] = "idle"
    /\ Len(returned) + Cardinality(Running) < MaxCalls
    /\ Kept(r, Dropped(heap, path, r))
    /\ pc' = [pc EXCEPT ![t] = IF r.err = "ok" THEN "load" ELSE "idle"]
    /\ UNCHANGED <<fd, reg, returned>>

OpenEnters(t) ==
  /\ pc[t] = "idle"
  /\ Len(returned) + Cardinality(Running) < MaxCalls
  /\ pc' = [pc EXCEPT ![t] = "load"]
  /\ UNCHANGED <<heap, fd, reg, returned>>

\* self.fd += 1, the load of self.fd
LoadFd(t) ==
  /\ pc[t] = "load"
  /\ reg' = [reg EXCEPT ![t] = fd]
  /\ pc' = [pc EXCEPT ![t] = "store"]
  /\ UNCHANGED <<heap, fd, returned>>

\* self.fd += 1, the store of the sum
StoreFd(t) ==
  /\ pc[t] = "store"
  /\ fd' = reg[t] + 1
  /\ pc' = [pc EXCEPT ![t] = "return"]
  /\ UNCHANGED <<heap, reg, returned>>

\* return self.fd
ReturnFd(t) ==
  /\ pc[t] = "return"
  /\ returned' = Append(returned, fd)
  /\ pc' = [pc EXCEPT ![t] = "idle"]
  /\ UNCHANGED <<heap, fd, reg>>

NextThreads ==
  \E t \in Threads :
    \/ CreateEnters(t)
    \/ OpenEnters(t)
    \/ LoadFd(t)
    \/ StoreFd(t)
    \/ ReturnFd(t)

SpecThreads == Init /\ [][NextThreads]_vars

\* C20: with create and open running on several threads, no two calls
\* return the same id, and when n calls have completed and none is running
\* the counter is n.
C20_IdsDistinctAndCounted ==
  /\ \A i, j \in 1..Len(returned) : returned[i] = returned[j] => i = j
  /\ Running = {} => fd = Len(returned)

====
